---------------------------- MODULE Spec2Model ----------------------------
(***************************************************************************)
(* The two batch tools of src/dbSNP.py, get_articles and                   *)
(* get_full_text_markdown, as one state machine.                           *)
(*                                                                         *)
(* Python strings are sequences of string chunks (Seq(STRING)): an f-string *)
(* is the concatenation of its pieces, str.join inserts the separator      *)
(* between the pieces, and the strings the code inspects character by      *)
(* character (the DOI, the content type) are sequences of one-character    *)
(* chunks.  The external services answer by nondeterministic choice; what  *)
(* they answered for the identifier being processed is kept in `calls`.    *)
(*                                                                         *)
(* Steps are cut at the awaits of get_full_text_markdown (the requests,    *)
(* the opening, the write and the closing of the file) and at the service  *)
(* calls of get_articles, which are plain calls.  Entering and leaving the *)
(* HTTP client (line 278) is taken not to suspend.  The log holds the      *)
(* logger.error lines.  os.remove of a file that exists succeeds; os.rmdir *)
(* may fail.  search_snps of src/server.py is a separate call with its own *)
(* state (search).                                                         *)
(***************************************************************************)
EXTENDS Integers, Sequences, FiniteSets, TLC

(***************************************************************************)
(* Bounds of the model.                                                    *)
(***************************************************************************)
MaxLen == 2

MaxScriptedLen == 3

MaxCands == 2

(***************************************************************************)
(* Values.                                                                 *)
(***************************************************************************)
NoValue == <<"<None>">>

Unbound == <<"<unbound>">>

Truthy(v) == v /= NoValue /\ v /= <<>>

Or(a, b) == IF Truthy(a) THEN a ELSE b

RECURSIVE Flatten(_)
Flatten(ss) == IF ss = <<>> THEN <<>> ELSE Head(ss) \o Flatten(Tail(ss))

RECURSIVE Join(_, _)
Join(sep, parts) ==
    IF parts = <<>> THEN <<>>
    ELSE IF Len(parts) = 1 THEN parts[1]
    ELSE parts[1] \o sep \o Join(sep, Tail(parts))

NL == <<"\n">>

SEPARATOR == <<"\n\n==========\n\n">>

DOIs == { <<"a", "/", "b">>, <<"a", "_", "b">> }

\* The lists of at most n identifiers.
Batches(n) == UNION { [1..m -> DOIs] : m \in 0..n }

Tools == { "get_articles", "get_full_text_markdown" }

email == <<"matthews1000140@gmail.com">>

(***************************************************************************)
(* Exceptions: a type and the text str(e) gives.                           *)
(***************************************************************************)
NoExc == [type |-> "none", msg |-> <<>>]

Exc(t, m) == [type |-> t, msg |-> m]

IsHTTPError(e) == e.type \in { "ConnectError", "HTTPStatusError" }

StatusText(status) ==
    IF status = 200 THEN <<"200 OK">>
    ELSE IF status = 404 THEN <<"404 Not Found">>
    ELSE <<"status">>

\* httpx Response.raise_for_status: raises unless the status is 2xx.
RaiseForStatus(resp) ==
    IF resp.status >= 200 /\ resp.status <= 299 THEN NoExc
    ELSE Exc("HTTPStatusError", <<"Client error ">> \o StatusText(resp.status))


(***************************************************************************)
(* Pure helpers of get_full_text_markdown.                                 *)
(***************************************************************************)
\* urllib.parse.quote with its default safe="/": unreserved characters and
\* "/" are kept, the others are percent-encoded.
QuoteKept == { "a", "b", "/", "_", ".", "-", "~", "1", "0" }

PercentEncoded(c) ==
    IF c = ":" THEN <<"%", "3", "A">>
    ELSE IF c = " " THEN <<"%", "2", "0">>
    ELSE <<"%", c>>

quote(s) ==
    Flatten([k \in DOMAIN s |-> IF s[k] \in QuoteKept THEN <<s[k]>> ELSE PercentEncoded(s[k])])

unpaywall_url(doi) ==
    <<"https://api.unpaywall.org/v2/">> \o quote(doi) \o <<"?email=">> \o email

\* doi.replace('/', '_')
ReplaceSlash(doi) == [k \in DOMAIN doi |-> IF doi[k] = "/" THEN "_" ELSE doi[k]]

\* os.path.join(temp_dir, f"{doi.replace('/', '_')}.pdf")
SafeFilename(dir, doi) == dir \o <<"/">> \o ReplaceSlash(doi) \o <<".pdf">>

\* dict.get(key, default): the default stands in for an absent key.
Get(v, default) == IF v = NoValue THEN default ELSE v

\* The loop of lines 299-302: the index of the first location with a truthy
\* url_for_pdf, 0 when the loop ends without a break.
RECURSIVE FirstWithPdf(_, _)
FirstWithPdf(locs, k) ==
    IF k > Len(locs) THEN 0
    ELSE IF Truthy(locs[k].url_for_pdf) THEN k
    ELSE FirstWithPdf(locs, k + 1)

\* Mutant: the first location is taken whether or not it has a PDF URL.
BestOaLocationFirst(data) ==
    IF data.is_oa /\ data.oa_locations /= <<>> THEN 1 ELSE 0

\* best_oa_location of lines 295-305, as an index into oa_locations
\* (0 stands for None).
BestOaLocation(data) ==
    IF data.is_oa
    THEN LET k == FirstWithPdf(data.oa_locations, 1)
         IN  IF k = 0 /\ data.oa_locations /= <<>> THEN 1 ELSE k
    ELSE 0

\* best_oa_location.get("url_for_pdf") or best_oa_location.get("url")
PdfUrl(location) == Or(location.url_for_pdf, location.url)

LowerChar(c) ==
    IF c = "P" THEN "p" ELSE IF c = "D" THEN "d" ELSE IF c = "F" THEN "f"
    ELSE IF c = "X" THEN "x" ELSE c

\* str.lower
Lower(s) == [k \in DOMAIN s |-> LowerChar(s[k])]

\* sub in s
Contains(sub, s) ==
    \E k \in 0..(Len(s) - Len(sub)) : SubSeq(s, k + 1, k + Len(sub)) = sub

\* Mutant: the content type is not lowered before the test.
IsPdfCaseSensitive(content_type) == Contains(<<"p", "d", "f">>, content_type)

\* 'pdf' in content_type.lower()
IsPdf(content_type) == Contains(<<"p", "d", "f">>, Lower(content_type))

\* pymupdf4llm.to_markdown: the same bytes always convert the same way; a
\* document that is not a complete PDF raises.
GoodPdf == <<"%PDF", "text", "%%EOF">>

BadPdf == <<"%PDF", "garbage">>

HtmlPage == <<"<html>">>

WellFormed(bytes) == Len(bytes) >= 2 /\ bytes[1] = "%PDF" /\ bytes[Len(bytes)] = "%%EOF"

to_markdown(bytes) ==
    IF WellFormed(bytes)
    THEN [exc |-> NoExc, text |-> <<"# markdown of ">> \o SubSeq(bytes, 2, Len(bytes) - 1)]
    ELSE [exc |-> Exc("FileDataError", <<"Failed to open file">>), text |-> <<>>]

(***************************************************************************)
(* What the external services can answer.                                  *)
(***************************************************************************)
Location(k, hasPdf, hasUrl) ==
    [ url_for_pdf |-> IF hasPdf THEN <<"https://pdf.example/", ToString(k)>> ELSE NoValue,
      url         |-> IF hasUrl THEN <<"https://landing.example/", ToString(k)>> ELSE NoValue,
      host_type   |-> IF k = 1 THEN <<"publisher">> ELSE <<"repository">> ]

\* The oa_locations of an answer: each location has a url_for_pdf or none;
\* every location has a url, but for the first one, which has one or none.
LocationLists ==
    UNION { { [k \in 1..n |-> Location(k, v[k], k > 1 \/ u)] :
                v \in [1..n -> BOOLEAN], u \in BOOLEAN } : n \in 0..MaxCands }

NoData == [is_oa |-> FALSE, oa_locations |-> <<>>]

\* The JSON of an Unpaywall answer, as far as the code reads it: is_oa and
\* oa_locations.  is_oa = false comes with or without locations.
UnpaywallData ==
    { [is_oa |-> TRUE, oa_locations |-> ls] : ls \in LocationLists }
    \cup { [is_oa |-> FALSE, oa_locations |-> <<>>],
           [is_oa |-> FALSE, oa_locations |-> <<Location(1, TRUE, TRUE)>>] }

NoBody == [content_type |-> NoValue, content |-> <<>>]

\* A response: the exception the transport raised (or none), status, JSON, body.
Resp(e, st, js, bd) == [exc |-> e, status |-> st, json |-> js, body |-> bd]

ConnectError == Exc("ConnectError", <<"All connection attempts failed">>)

UnpaywallResponses ==
    { Resp(ConnectError, 0, NoData, NoBody), Resp(NoExc, 404, NoData, NoBody) }
    \cup { Resp(NoExc, 200, d, NoBody) : d \in UnpaywallData }

ContentTypePdf == <<"x", "/", "p", "d", "f">>

ContentTypePDF == <<"X", "/", "P", "D", "F">>

ContentTypeHtml == <<"t", "/", "h", "t", "m", "l">>


DownloadBodies ==
    { [content_type |-> ContentTypePdf, content |-> BadPdf],
      [content_type |-> ContentTypePDF, content |-> GoodPdf],
      [content_type |-> ContentTypeHtml, content |-> HtmlPage],
      [content_type |-> NoValue, content |-> HtmlPage] }

DownloadResponses ==
    { Resp(ConnectError, 0, NoData, NoBody), Resp(NoExc, 404, NoData, NoBody) }
    \cup { Resp(NoExc, 200, NoData, b) : b \in DownloadBodies }

\* aiofiles.open and f.write: the file is opened (created) or not, and then
\* written whole or in part.
OpenOutcomes == { "opened", "OSError" }

WriteOutcomes == { "written", "OSError" }

OsOutcome(o) ==
    Resp(IF o = "OSError" THEN Exc("OSError", <<"[Errno 28] No space left on device">>)
                          ELSE NoExc, 0, NoData, NoBody)

(***************************************************************************)
(* What the services of get_articles can answer.                           *)
(***************************************************************************)
Article(abstract) ==
    [ title    |-> <<"A title">>,
      authors  |-> << <<"Doe J">>, <<"Roe R">> >>,
      journal  |-> <<"J Mol Biol">>,
      year     |-> <<"2020">>,
      citation |-> <<"Doe J, et al. J Mol Biol. 2020">>,
      abstract |-> abstract ]

NoArticle == [ title |-> <<>>, authors |-> <<>>, journal |-> <<>>, year |-> <<>>,
               citation |-> <<>>, abstract |-> NoValue ]

MetaPubError == Exc("MetaPubError", <<"service unavailable">>)

\* convert.doi2pmid: a PMID, None, or an exception.
PmidResponses ==
    { [exc |-> MetaPubError, pmid |-> NoValue],
      [exc |-> NoExc, pmid |-> NoValue],
      [exc |-> NoExc, pmid |-> <<"31452104">>] }

\* pubmed_fetch.article_by_pmid: an article, None, or an exception.
ArticleResponses ==
    { [exc |-> MetaPubError, found |-> FALSE, article |-> NoArticle],
      [exc |-> NoExc, found |-> FALSE, article |-> NoArticle],
      [exc |-> NoExc, found |-> TRUE, article |-> Article(<<"An abstract">>)],
      [exc |-> NoExc, found |-> TRUE, article |-> Article(NoValue)] }

\* FindIt(pmid): an object with url and reason, or an exception.
FindItResponses ==
    { [exc |-> MetaPubError, url |-> NoValue, reason |-> <<>>],
      [exc |-> NoExc, url |-> <<"https://fulltext.example/1">>, reason |-> <<>>],
      [exc |-> NoExc, url |-> NoValue, reason |-> <<"PAYWALL">>] }

(***************************************************************************)
(* State.                                                                  *)
(***************************************************************************)
VARIABLES
    tool,       \* the tool that is called
    dois,       \* its argument
    svc,        \* <<>>, or per position the answers the services will give
    pc,         \* where the call stands
    i,          \* the position of doi in dois (the for loop)
    results,    \* results
    info,       \* article_info / result_info
    pmid,       \* pmid
    filename,   \* filename (unbound until line 315 first runs)
    best,       \* best_oa_location
    pdf_url,    \* pdf_url
    content,    \* pdf_response.content
    temp_dir,   \* temp_dir
    dirs,       \* the directories that exist
    files,      \* the files that exist, with their content
    log,        \* what logger.error has written
    ret,        \* how the call ended
    calls,      \* the external calls made for dois[i], with their answers
    search,     \* a call of search_snps (src/server.py): its locals and result
    parked,     \* the locals of the other batch call of the event loop, if any
    served      \* where the call stood when an unrelated request was served

vars == << tool, dois, svc, pc, i, results, info, pmid, filename, best, pdf_url,
           content, temp_dir, dirs, files, log, ret, calls, search, parked, served >>

NoLocation == [url_for_pdf |-> NoValue, url |-> NoValue, host_type |-> NoValue]

NoFiles == [p \in {} |-> <<>>]

Pending == [kind |-> "pending", value |-> <<>>]

NoneBatch == << NoValue >>

\* search_snps is not called.
NotCalled == [pc |-> "idle"]

\* There is no other batch call.
NoTask == [pc |-> "none"]

\* One batch call and nothing else in the event loop.
Alone == parked = NoTask /\ served = <<>>

\* The names tempfile.mkdtemp(prefix="pdf_processing_") can give.
TempName(k) == << "/tmp/pdf_processing_" \o ToString(k) >>

TempDir == TempName(0)

\* Mutant: the directory has one fixed name.
mkdtempFixed(ds) == TempDir

\* tempfile.mkdtemp: a new directory, whose name no existing directory has.
mkdtemp(ds) ==
    TempName(CHOOSE k \in 0..Cardinality(ds) :
                /\ TempName(k) \notin ds
                /\ \A j \in 0..(k - 1) : TempName(j) \in ds)

\* The path lies in the directory (os.path.join(dir, name)).
InDir(path, dir) == path /= <<>> /\ dir /= <<>> /\ path[1] = dir[1]

doi == dois[i]

\* The answers a service may give now: any of them, or the scripted one.
Pick(all, field) == IF svc = <<>> THEN all ELSE { svc[i][field] }

Called(service, arg, resp) == [svc |-> service, arg |-> arg, resp |-> resp]

\* Before the call: the tool and its argument, a list of at most n
\* identifiers or None.
InitState(n) ==
    /\ tool \in Tools
    /\ dois \in Batches(n) \cup { NoneBatch }
    /\ pc = "idle"
    /\ i = 0
    /\ results = <<>>
    /\ info = <<>>
    /\ pmid = NoValue
    /\ filename = Unbound
    /\ best = NoLocation
    /\ pdf_url = NoValue
    /\ content = <<>>
    /\ temp_dir = NoValue
    /\ dirs = {}
    /\ files = NoFiles
    /\ log = <<>>
    /\ ret = Pending
    /\ calls = <<>>
    /\ search = NotCalled

Init == InitState(MaxLen) /\ svc = <<>> /\ Alone

(***************************************************************************)
(* get_full_text_markdown (src/dbSNP.py, lines 261-373).                   *)
(***************************************************************************)
\* lines 282-285
ResultHeader(d) == << <<"PDF Processing Results:">>, <<"DOI: ">> \o d >>

\* The except clauses of lines 340-345: what result_info is after them.
InnerExcept(inf, e) ==
    IF e = NoExc THEN inf
    ELSE IF IsHTTPError(e)
    THEN Append(inf, <<"Error: Failed to retrieve or download PDF - ">> \o e.msg)
    ELSE Append(inf, <<"Error: Failed to process PDF - ">> \o e.msg)

\* ... and what they log.
InnerExceptLog(d, e) ==
    IF e = NoExc THEN <<>>
    ELSE IF IsHTTPError(e)
    THEN << <<"[Error] API or download error for DOI ">> \o d \o <<": ">> \o e.msg >>
    ELSE << <<"[Error] Failed to process PDF for DOI ">> \o d \o <<": ">> \o e.msg >>

UnboundLocalError ==
    Exc("UnboundLocalError",
        <<"cannot access local variable 'filename' where it is not associated with a value">>)

\* line 348: reading filename raises when no iteration has assigned it yet.
FinallyExc(fname) == IF fname = Unbound THEN UnboundLocalError ELSE NoExc

\* Mutant: the finally clause does not remove the file.
FinallyFilesKept(fs, fname) == fs

\* lines 348-349: if os.path.exists(filename): os.remove(filename)
FinallyFiles(fs, fname) ==
    IF fname /= Unbound /\ fname \in DOMAIN fs
    THEN [p \in DOMAIN fs \ {fname} |-> fs[p]]
    ELSE fs

\* lines 351-358: the outer except replaces result_info.
OuterExcept(d, e) == Append(ResultHeader(d), <<"Error: ">> \o e.msg)

OuterExceptLog(d, e) ==
    << <<"[Error] Unexpected error processing DOI ">> \o d \o <<": ">> \o e.msg >>

\* Mutant: the fragment is put in front of the list.
AppendResultFront(rs, inf) == << Join(NL, inf) >> \o rs

\* line 360
AppendResult(rs, inf) == Append(rs, Join(NL, inf))

WriteFile(fs, fname, bytes) ==
    [p \in DOMAIN fs \cup {fname} |-> IF p = fname THEN bytes ELSE fs[p]]

\* Mutant: there is no outer except, the error of the finally clause leaves
\* the call.
FT_ItemDoneUncaught(inf, e, fs, cl) ==
    LET inf1 == InnerExcept(inf, e)
        fe   == FinallyExc(filename)
    IN  /\ info' = inf1
        /\ results' = IF fe = NoExc THEN AppendResult(results, inf1) ELSE results
        /\ files' = FinallyFiles(fs, filename)
        /\ log' = log \o InnerExceptLog(doi, e)
        /\ calls' = cl
        /\ pc' = IF fe = NoExc THEN "ft_for" ELSE "done"
        /\ ret' = IF fe = NoExc THEN ret ELSE [kind |-> "raise", value |-> fe.msg]
        /\ best' = NoLocation
        /\ pdf_url' = NoValue
        /\ content' = <<>>
        /\ UNCHANGED << tool, dois, svc, i, pmid, filename, temp_dir, dirs >>

\* The end of one iteration, from the point where the inner try block is left
\* with exception e (or none): except clauses, finally, outer except, append.
\* The locals that the next iteration assigns before it reads them are reset.
FT_ItemDone(inf, e, fs, cl) ==
    LET inf1 == InnerExcept(inf, e)
        fe   == FinallyExc(filename)
        inf2 == IF fe = NoExc THEN inf1 ELSE OuterExcept(doi, fe)
    IN  /\ info' = inf2
        /\ results' = AppendResult(results, inf2)
        /\ files' = FinallyFiles(fs, filename)
        /\ log' = log \o InnerExceptLog(doi, e)
                      \o (IF fe = NoExc THEN <<>> ELSE OuterExceptLog(doi, fe))
        /\ calls' = cl
        /\ pc' = "ft_for"
        /\ best' = NoLocation
        /\ pdf_url' = NoValue
        /\ content' = <<>>
        /\ UNCHANGED << tool, dois, svc, i, pmid, filename, temp_dir, dirs, ret >>

\* lines 273-278: results = [], tempfile.mkdtemp, the client is opened.
FT_Enter ==
    /\ pc = "idle"
    /\ tool = "get_full_text_markdown"
    /\ results' = <<>>
    /\ temp_dir' = mkdtemp(dirs)
    /\ dirs' = dirs \cup { mkdtemp(dirs) }
    /\ pc' = "ft_for"
    /\ UNCHANGED << tool, dois, svc, i, info, pmid, filename, best, pdf_url, content,
                    files, log, ret, calls >>

\* lines 279-290: the next doi; result_info; the Unpaywall request is sent.
FT_NextDoi ==
    /\ pc = "ft_for"
    /\ dois /= NoneBatch
    /\ i < Len(dois)
    /\ i' = i + 1
    /\ info' = ResultHeader(dois[i + 1])
    /\ calls' = <<>>
    /\ pc' = "ft_unpaywall"
    /\ UNCHANGED << tool, dois, svc, results, pmid, filename, best, pdf_url, content,
                    temp_dir, dirs, files, log, ret >>

\* lines 290-315: the Unpaywall answer, the choice of the location, filename;
\* the download request is sent.
FT_Unpaywall ==
    /\ pc = "ft_unpaywall"
    /\ \E r \in Pick(UnpaywallResponses, "unpaywall") :
         LET cl   == Append(calls, Called("unpaywall", unpaywall_url(doi), r))
             e    == IF r.exc /= NoExc THEN r.exc ELSE RaiseForStatus(r)
             data == r.json
             k    == BestOaLocation(data)
             loc  == data.oa_locations[k]
         IN  IF e /= NoExc
             THEN FT_ItemDone(info, e, files, cl)
             ELSE IF k = 0
             THEN FT_ItemDone(info, Exc("ValueError", <<"No open access PDF available">>),
                              files, cl)
             ELSE IF ~Truthy(PdfUrl(loc))
             THEN FT_ItemDone(info,
                              Exc("ValueError", <<"No PDF URL found in open access location">>),
                              files, cl)
             ELSE /\ best' = loc
                  /\ pdf_url' = PdfUrl(loc)
                  /\ filename' = SafeFilename(temp_dir, doi)
                  /\ calls' = cl
                  /\ pc' = "ft_download"
                  /\ UNCHANGED << tool, dois, svc, i, results, info, pmid, content,
                                  temp_dir, dirs, files, log, ret >>

\* lines 318-327: the download answer, the content-type check; the file is
\* about to be opened.
FT_Download ==
    /\ pc = "ft_download"
    /\ \E r \in Pick(DownloadResponses, "download") :
         LET cl == Append(calls, Called("download", pdf_url, r))
             e  == IF r.exc /= NoExc THEN r.exc ELSE RaiseForStatus(r)
             content_type == Get(r.body.content_type, <<>>)
         IN  IF e /= NoExc
             THEN FT_ItemDone(info, e, files, cl)
             ELSE IF ~IsPdf(content_type)
             THEN FT_ItemDone(info,
                              Exc("ValueError", <<"Not a PDF file (content-type: ">>
                                                \o content_type \o <<")">>),
                              files, cl)
             ELSE /\ content' = r.body.content
                  /\ calls' = cl
                  /\ pc' = "ft_open"
                  /\ UNCHANGED << tool, dois, svc, i, results, info, pmid, filename, best,
                                  pdf_url, temp_dir, dirs, files, log, ret >>

\* line 327: aiofiles.open(filename, 'wb') creates (or truncates) the file.
FT_Open ==
    /\ pc = "ft_open"
    /\ \E o \in Pick(OpenOutcomes, "open") :
         LET r  == OsOutcome(o)
             cl == Append(calls, Called("open", filename, r))
         IN  IF r.exc /= NoExc
             THEN FT_ItemDone(info, r.exc, files, cl)
             ELSE /\ files' = WriteFile(files, filename, <<>>)
                  /\ calls' = cl
                  /\ pc' = "ft_write"
                  /\ UNCHANGED << tool, dois, svc, i, results, info, pmid, filename, best,
                                  pdf_url, content, temp_dir, dirs, log, ret >>

\* line 328: f.write(pdf_response.content) ends, the bytes are in the file or
\* a part of them is; the file is about to be closed (the end of line 327's
\* async with).
FT_Write ==
    /\ pc = "ft_write"
    /\ \E o \in Pick(WriteOutcomes, "write") :
         LET r == OsOutcome(o)
         IN  /\ files' = WriteFile(files, filename,
                                   IF r.exc = NoExc THEN content ELSE SubSeq(content, 1, 1))
             /\ calls' = Append(calls, Called("write", filename, r))
    /\ pc' = "ft_close"
    /\ UNCHANGED << tool, dois, svc, i, results, info, pmid, filename, best, pdf_url,
                    content, temp_dir, dirs, log, ret >>

\* What pymupdf4llm.to_markdown(filename) reads: the bytes of the file, if
\* there is one.
ReadFile(fs, fname) ==
    IF fname \in DOMAIN fs
    THEN [exc |-> NoExc, bytes |-> fs[fname]]
    ELSE [exc |-> Exc("FileNotFoundError", <<"no such file: ">> \o fname), bytes |-> <<>>]

\* lines 327-338 and 346-360: the file is closed; the error of the write, if
\* any, goes on; the conversion, which does not suspend; the end of the
\* iteration.
FT_Close ==
    /\ pc = "ft_close"
    /\ LET w   == calls[Len(calls)].resp
           rd  == ReadFile(files, filename)
           md  == IF rd.exc /= NoExc THEN [exc |-> rd.exc, text |-> <<>>]
                  ELSE to_markdown(rd.bytes)
           cl2 == Append(calls, Called("to_markdown", filename,
                                       Resp(md.exc, 0, NoData,
                                            [content_type |-> NoValue, content |-> rd.bytes])))
       IN  IF w.exc /= NoExc
           THEN FT_ItemDone(info, w.exc, files, calls)
           ELSE IF md.exc /= NoExc
           THEN FT_ItemDone(info, md.exc, files, cl2)
           ELSE FT_ItemDone(
                  info \o << <<"Open Access Source: ">> \o Get(best.host_type, <<"unknown">>),
                             <<>>,
                             <<"Markdown Content:">>,
                             md.text >>,
                  NoExc, files, cl2)

\* Mutant: the joined list is returned even when it is empty.
ReportNoSentinel(rs, sentinel) == Join(SEPARATOR, rs)

\* lines 255-259 and 369-373
Report(rs, sentinel) == IF rs = <<>> THEN sentinel ELSE Join(SEPARATOR, rs)

\* lines 362-367: os.rmdir removes an empty directory; any failure is logged.
RmdirOk(fs, envOk) ==
    envOk /\ temp_dir \in dirs /\ \A p \in DOMAIN fs : ~InDir(p, temp_dir)

RmdirLog(ok) ==
    IF ok THEN <<>>
    ELSE << <<"[Error] Failed to clean up temporary directory: ">>
            \o <<"[Errno 39] Directory not empty or not removable">> >>

\* lines 279, 362-373: the loop is over; the directory is removed; the report.
FT_EndLoop ==
    /\ pc = "ft_for"
    /\ dois /= NoneBatch
    /\ i = Len(dois)
    /\ \E envOk \in BOOLEAN :
         LET ok == RmdirOk(files, envOk)
         IN  /\ dirs' = IF ok THEN dirs \ {temp_dir} ELSE dirs
             /\ log' = log \o RmdirLog(ok)
    /\ ret' = [kind |-> "return", value |-> Report(results, <<"No PDFs were processed successfully.">>)]
    /\ pc' = "done"
    /\ UNCHANGED << tool, dois, svc, i, results, info, pmid, filename, best, pdf_url,
                    content, temp_dir, files, calls >>

\* Mutant: the directory is removed after the loop and not in a finally
\* clause, so the TypeError skips it.
FT_NotIterableNoCleanup ==
    /\ pc = "ft_for"
    /\ dois = NoneBatch
    /\ ret' = [kind |-> "raise", value |-> <<"TypeError: 'NoneType' object is not iterable">>]
    /\ pc' = "done"
    /\ UNCHANGED << tool, dois, svc, i, results, info, pmid, filename, best, pdf_url,
                    content, temp_dir, dirs, files, log, calls >>

\* line 279 with dois = None: TypeError; lines 362-367 run; the error leaves
\* the call.
FT_NotIterable ==
    /\ pc = "ft_for"
    /\ dois = NoneBatch
    /\ \E envOk \in BOOLEAN :
         LET ok == RmdirOk(files, envOk)
         IN  /\ dirs' = IF ok THEN dirs \ {temp_dir} ELSE dirs
             /\ log' = log \o RmdirLog(ok)
    /\ ret' = [kind |-> "raise", value |-> <<"TypeError: 'NoneType' object is not iterable">>]
    /\ pc' = "done"
    /\ UNCHANGED << tool, dois, svc, i, results, info, pmid, filename, best, pdf_url,
                    content, temp_dir, files, calls >>

(***************************************************************************)
(* get_articles (src/dbSNP.py, lines 164-259).                             *)
(***************************************************************************)
\* lines 183-186
ArticleHeader(d) == << <<"Article Information:">>, <<"DOI: ">> \o d >>

\* lines 207-219
ArticleLines(article) ==
    << <<"Title: ">> \o article.title,
       <<"Authors: ">> \o Join(<<"; ">>, article.authors),
       <<"Journal: ">> \o article.journal \o <<" (">> \o article.year \o <<")">>,
       <<"Citation: ">> \o article.citation,
       <<>>,
       <<"Abstract:">>,
       IF Truthy(article.abstract) THEN article.abstract ELSE <<"Not available">> >>

\* Mutant: the URL the finder gives is not reported.
FullTextLinesNoUrl(finder) ==
    << <<>>, <<"Full Text Access:">>,
       <<"Full text URL not available">>, <<"Reason: ">> \o finder.reason >>

\* lines 229-239
FullTextLines(finder) ==
    << <<>>, <<"Full Text Access:">> >>
    \o (IF Truthy(finder.url)
        THEN << <<"URL: ">> \o finder.url >>
        ELSE << <<"Full text URL not available">>, <<"Reason: ">> \o finder.reason >>)

\* lines 242-246
FullTextErrorLines(e) ==
    << <<>>, <<"Full Text Access:">>,
       <<"Error: Could not retrieve full text URL - ">> \o e.msg >>

\* results.append("\n".join(article_info)) and on to the next doi
\* (lines 197-198, 223-224, 248).
GA_ItemDone(inf, logged, cl) ==
    /\ info' = inf
    /\ results' = AppendResult(results, inf)
    /\ log' = log \o logged
    /\ calls' = cl
    /\ pmid' = NoValue
    /\ pc' = "ga_for"
    /\ UNCHANGED << tool, dois, svc, i, filename, best, pdf_url, content, temp_dir,
                    dirs, files, ret >>

\* line 179
GA_Enter ==
    /\ pc = "idle"
    /\ tool = "get_articles"
    /\ results' = <<>>
    /\ pc' = "ga_for"
    /\ UNCHANGED << tool, dois, svc, i, info, pmid, filename, best, pdf_url, content,
                    temp_dir, dirs, files, log, ret, calls >>

\* lines 180-186
GA_NextDoi ==
    /\ pc = "ga_for"
    /\ dois /= NoneBatch
    /\ i < Len(dois)
    /\ i' = i + 1
    /\ info' = ArticleHeader(dois[i + 1])
    /\ calls' = <<>>
    /\ pc' = "ga_pmid"
    /\ UNCHANGED << tool, dois, svc, results, pmid, filename, best, pdf_url, content,
                    temp_dir, dirs, files, log, ret >>

\* lines 188-198: convert.doi2pmid
GA_Resolve ==
    /\ pc = "ga_pmid"
    /\ \E r \in Pick(PmidResponses, "pmid") :
         LET cl == Append(calls, Called("doi2pmid", doi, r))
             e  == IF r.exc /= NoExc THEN r.exc
                   ELSE IF ~Truthy(r.pmid)
                   THEN Exc("ValueError", <<"Could not convert DOI to PMID">>)
                   ELSE NoExc
         IN  IF e /= NoExc
             THEN GA_ItemDone(
                    Append(info, <<"Error: Could not retrieve PMID - ">> \o e.msg),
                    << <<"[Error] Failed to get PMID for DOI ">> \o doi \o <<": ">> \o e.msg >>,
                    cl)
             ELSE /\ pmid' = r.pmid
                  /\ info' = Append(info, <<"PMID: ">> \o r.pmid)
                  /\ calls' = cl
                  /\ pc' = "ga_article"
                  /\ UNCHANGED << tool, dois, svc, i, results, filename, best, pdf_url,
                                  content, temp_dir, dirs, files, log, ret >>

\* lines 200-224: pubmed_fetch.article_by_pmid
GA_Metadata ==
    /\ pc = "ga_article"
    /\ \E r \in Pick(ArticleResponses, "article") :
         LET cl == Append(calls, Called("article_by_pmid", pmid, r))
             e  == IF r.exc /= NoExc THEN r.exc
                   ELSE IF ~r.found
                   THEN Exc("ValueError", <<"No article data returned">>)
                   ELSE NoExc
         IN  IF e /= NoExc
             THEN GA_ItemDone(
                    Append(info, <<"Error: Could not retrieve article data - ">> \o e.msg),
                    << <<"[Error] Failed to fetch article data for PMID ">> \o pmid
                       \o <<": ">> \o e.msg >>,
                    cl)
             ELSE /\ info' = info \o ArticleLines(r.article)
                  /\ calls' = cl
                  /\ pc' = "ga_findit"
                  /\ UNCHANGED << tool, dois, svc, i, results, pmid, filename, best,
                                  pdf_url, content, temp_dir, dirs, files, log, ret >>

\* lines 226-248: FindIt(pmid), and the fragment is appended
GA_Locate ==
    /\ pc = "ga_findit"
    /\ \E r \in Pick(FindItResponses, "findit") :
         LET cl == Append(calls, Called("FindIt", pmid, r))
         IN  IF r.exc /= NoExc
             THEN GA_ItemDone(
                    info \o FullTextErrorLines(r.exc),
                    << <<"[Error] Failed to find full text for PMID ">> \o pmid
                       \o <<": ">> \o r.exc.msg >>,
                    cl)
             ELSE GA_ItemDone(info \o FullTextLines(r), <<>>, cl)

\* lines 180, 255-259
GA_EndLoop ==
    /\ pc = "ga_for"
    /\ dois /= NoneBatch
    /\ i = Len(dois)
    /\ ret' = [kind |-> "return",
               value |-> Report(results, <<"No articles were processed successfully.">>)]
    /\ pc' = "done"
    /\ UNCHANGED << tool, dois, svc, i, results, info, pmid, filename, best, pdf_url,
                    content, temp_dir, dirs, files, log, calls >>

\* line 180 with dois = None
GA_NotIterable ==
    /\ pc = "ga_for"
    /\ dois = NoneBatch
    /\ ret' = [kind |-> "raise", value |-> <<"TypeError: 'NoneType' object is not iterable">>]
    /\ pc' = "done"
    /\ UNCHANGED << tool, dois, svc, i, results, info, pmid, filename, best, pdf_url,
                    content, temp_dir, dirs, files, log, calls >>

(***************************************************************************)
(* Scripted services: what each service answers for each position of the   *)
(* batch is fixed when the call starts, so that two positions can be given *)
(* the same answers.                                                       *)
(***************************************************************************)
OpenAccessAnswer == Resp(NoExc, 200, [is_oa |-> TRUE, oa_locations |-> <<Location(1, TRUE, TRUE)>>],
                         NoBody)

NotOpenAccessAnswer == Resp(NoExc, 200, [is_oa |-> FALSE, oa_locations |-> <<>>], NoBody)

PdfAnswer == Resp(NoExc, 200, NoData, [content_type |-> ContentTypePDF, content |-> GoodPdf])

Script(u, d, o, w, p, a, f) ==
    [unpaywall |-> u, download |-> d, open |-> o, write |-> w, pmid |-> p, article |-> a,
     findit |-> f]

Scripts ==
    { Script(OpenAccessAnswer, PdfAnswer, "opened", "written",
             [exc |-> NoExc, pmid |-> <<"31452104">>],
             [exc |-> NoExc, found |-> TRUE, article |-> Article(<<"An abstract">>)],
             [exc |-> NoExc, url |-> <<"https://fulltext.example/1">>, reason |-> <<>>]),
      Script(NotOpenAccessAnswer, PdfAnswer, "opened", "written",
             [exc |-> NoExc, pmid |-> NoValue],
             [exc |-> NoExc, found |-> TRUE, article |-> Article(<<"An abstract">>)],
             [exc |-> NoExc, url |-> <<"https://fulltext.example/1">>, reason |-> <<>>]),
      Script(OpenAccessAnswer, Resp(NoExc, 404, NoData, NoBody), "opened", "written",
             [exc |-> NoExc, pmid |-> <<"31452104">>],
             [exc |-> MetaPubError, found |-> FALSE, article |-> NoArticle],
             [exc |-> NoExc, url |-> <<"https://fulltext.example/1">>, reason |-> <<>>]),
      Script(OpenAccessAnswer, PdfAnswer, "opened", "OSError",
             [exc |-> NoExc, pmid |-> <<"31452104">>],
             [exc |-> NoExc, found |-> TRUE, article |-> Article(NoValue)],
             [exc |-> NoExc, url |-> NoValue, reason |-> <<"PAYWALL">>]),
      Script(Resp(ConnectError, 0, NoData, NoBody), PdfAnswer, "OSError", "written",
             [exc |-> MetaPubError, pmid |-> NoValue],
             [exc |-> NoExc, found |-> TRUE, article |-> Article(NoValue)],
             [exc |-> MetaPubError, url |-> NoValue, reason |-> <<>>]) }

InitScripted ==
    /\ InitState(MaxScriptedLen)
    /\ svc \in (IF dois = NoneBatch THEN { <<>> } ELSE [1..Len(dois) -> Scripts])
    /\ Alone

\* A step of a batch tool leaves the state of the other tool calls alone.
Elsewhere == UNCHANGED << search, parked, served >>

Next ==
    \/ FT_Enter /\ Elsewhere
    \/ FT_NextDoi /\ Elsewhere
    \/ FT_Unpaywall /\ Elsewhere
    \/ FT_Download /\ Elsewhere
    \/ FT_Open /\ Elsewhere
    \/ FT_Write /\ Elsewhere
    \/ FT_Close /\ Elsewhere
    \/ FT_EndLoop /\ Elsewhere
    \/ FT_NotIterable /\ Elsewhere
    \/ GA_Enter /\ Elsewhere
    \/ GA_NextDoi /\ Elsewhere
    \/ GA_Resolve /\ Elsewhere
    \/ GA_Metadata /\ Elsewhere
    \/ GA_Locate /\ Elsewhere
    \/ GA_EndLoop /\ Elsewhere
    \/ GA_NotIterable /\ Elsewhere

Spec == Init /\ [][Next]_vars

SpecScripted == InitScripted /\ [][Next]_vars

(***************************************************************************)
(* search_snps (src/server.py, lines 89-150).                              *)
(***************************************************************************)
MaxLimit == 2

MaxIds == 3

Terms == { <<"BRCA1">>, <<"rs6311">> }

\* limit counts results: 0, 1, ...
Limits == 0..MaxLimit

\* api_key = os.environ.get("NCBI_API_KEY") (line 29)
ApiKeys == { NoValue, <<"key">> }

SnpIds == { <<"6311">>, <<"1234">> }

IdLists == UNION { [1..m -> SnpIds] : m \in 0..MaxIds }

Digits == << "0", "1", "2", "3", "4", "5", "6", "7", "8", "9" >>

IsDigit(c) == \E d \in DOMAIN Digits : Digits[d] = c

DigitValue(c) == (CHOOSE d \in DOMAIN Digits : Digits[d] = c) - 1

RECURSIVE ParseDigits(_, _)
ParseDigits(s, acc) ==
    IF s = <<>> THEN acc ELSE ParseDigits(Tail(s), 10 * acc + DigitValue(Head(s)))

\* int(x): the number a string of digits writes, ValueError for another string.
ParseInt(s) ==
    IF s /= <<>> /\ \A k \in DOMAIN s : IsDigit(s[k])
    THEN [exc |-> NoExc, value |-> ParseDigits(s, 0)]
    ELSE [exc |-> Exc("ValueError", <<"invalid literal for int() with base 10">>), value |-> 0]

\* The JSON of an esearch answer, as far as the code reads it: esearchresult
\* (present or not) with count and idlist (each present or not).
Esearch(present, count, hasIdlist, idlist) ==
    [present |-> present, count |-> count, has_idlist |-> hasIdlist, idlist |-> idlist]

NoEsearch == Esearch(FALSE, NoValue, FALSE, <<>>)

EsearchCounts == { NoValue, <<"1", "2">>, <<"m", "a", "n", "y">> }

EsearchData ==
    { NoEsearch }
    \cup { Esearch(TRUE, c, FALSE, <<>>) : c \in EsearchCounts }
    \cup { Esearch(TRUE, c, TRUE, l) : c \in EsearchCounts, l \in IdLists }

\* A response of requests.get: the exception it raised (or none), the status,
\* whether the body is JSON, and the JSON.
SearchResp(e, st, isJson, js) == [exc |-> e, status |-> st, is_json |-> isJson, json |-> js]

ConnectionError == Exc("ConnectionError", <<"Max retries exceeded">>)

SearchResponses ==
    { SearchResp(ConnectionError, 0, FALSE, NoEsearch),
      SearchResp(NoExc, 429, TRUE, NoEsearch),
      SearchResp(NoExc, 502, FALSE, NoEsearch),
      SearchResp(NoExc, 200, FALSE, NoEsearch) }
    \cup { SearchResp(NoExc, 200, TRUE, d) : d \in EsearchData }

\* lines 103-112
SearchParams(term, limit, api_key) ==
    [db |-> <<"snp">>, term |-> term, retmode |-> <<"json">>, retmax |-> limit,
     api_key |-> IF Truthy(api_key) THEN api_key ELSE NoValue]

\* s[:n]
Slice(s, n) ==
    IF n >= 0 THEN SubSeq(s, 1, IF n < Len(s) THEN n ELSE Len(s))
    ELSE SubSeq(s, 1, IF Len(s) + n > 0 THEN Len(s) + n ELSE 0)

\* data.get("esearchresult", {}).get("idlist", [])
IdListOf(data) == IF data.present /\ data.has_idlist THEN data.idlist ELSE <<>>

\* data.get("esearchresult", {}).get("count", 0), as int() is given it
\* (int(0) is 0).
CountOf(data) == IF data.present THEN Get(data.count, <<"0">>) ELSE <<"0">>

\* lines 125-133
SnpDetails(id_list, limit) ==
    LET shown == Slice(id_list, limit)
    IN  [k \in DOMAIN shown |-> [rs_id |-> <<"rs">> \o shown[k], numeric_id |-> shown[k]]]

\* lines 135-141
SearchResult(term, data, limit) ==
    [ success        |-> TRUE,
      search_term    |-> term,
      total_count    |-> ParseInt(CountOf(data)).value,
      returned_count |-> Len(IdListOf(data)),
      results        |-> SnpDetails(IdListOf(data), limit) ]

\* lines 36-48: handle_api_error
handle_api_error(response) ==
    [ success     |-> FALSE,
      status_code |-> response.status,
      error       |-> IF response.is_json THEN <<"{...}">> ELSE <<"{raw_text: ...}">> ]

handle_api_error_log(response) ==
    <<"[API] Error ", ToString(response.status), ": ">>
    \o (IF response.is_json THEN <<"{...}">> ELSE <<"{raw_text: ...}">>)

\* lines 145-150
SearchFailure(e) == [success |-> FALSE, error |-> e.msg]

\* lines 101-115: the parameters are built and the request is sent.
SS_Request ==
    /\ search.pc = "idle"
    /\ \E term \in Terms, limit \in Limits, api_key \in ApiKeys :
         search' = [pc |-> "requested", term |-> term, limit |-> limit,
                    params |-> SearchParams(term, limit, api_key)]
    /\ UNCHANGED << tool, dois, svc, pc, i, results, info, pmid, filename, best, pdf_url,
                    content, temp_dir, dirs, files, log, ret, calls, parked, served >>

\* lines 115-150: the answer, and what search_snps returns.
SS_Response ==
    /\ search.pc = "requested"
    /\ \E response \in SearchResponses :
         LET data == response.json
             e    == IF response.exc /= NoExc THEN response.exc
                     ELSE IF response.status /= 200 THEN NoExc
                     ELSE IF ~response.is_json
                     THEN Exc("JSONDecodeError", <<"Expecting value">>)
                     ELSE ParseInt(CountOf(data)).exc
         IN  /\ search' =
                  [ pc       |-> "done",
                    term     |-> search.term,
                    limit    |-> search.limit,
                    params   |-> search.params,
                    response |-> response,
                    result   |-> IF e /= NoExc THEN SearchFailure(e)
                                 ELSE IF response.status = 200
                                 THEN SearchResult(search.term, data, search.limit)
                                 ELSE handle_api_error(response) ]
             /\ log' = IF e /= NoExc
                       THEN Append(log, <<"[Error] Failed to search SNPs: ">> \o e.msg)
                       ELSE IF response.status = 200 THEN log
                       ELSE Append(log, handle_api_error_log(response))
    /\ UNCHANGED << tool, dois, svc, pc, i, results, info, pmid, filename, best, pdf_url,
                    content, temp_dir, dirs, files, ret, calls, parked, served >>

\* No batch tool is called.
InitSearch ==
    /\ InitState(0)
    /\ tool = "get_articles"
    /\ dois = <<>>
    /\ svc = <<>>
    /\ Alone

NextSearch ==
    \/ SS_Request
    \/ SS_Response

SpecSearch == InitSearch /\ [][NextSearch]_vars

(***************************************************************************)
(* Two get_full_text_markdown calls in one event loop.  A call runs until  *)
(* it awaits (lines 290, 318, 327, 328); the loop then resumes it or the   *)
(* other call.  The variables of the batch call are the locals of the call *)
(* that runs, parked holds the locals of the other one; the file system    *)
(* and the log are shared.                                                 *)
(***************************************************************************)
MaxConcLen == 1

\* The call waits for an awaited operation: the Unpaywall answer, the
\* download, the opening, the write or the closing of the file.
Awaiting == { "ft_unpaywall", "ft_download", "ft_open", "ft_write", "ft_close" }

\* The locals of the call that runs.
Locals ==
    [ tool |-> tool, dois |-> dois, svc |-> svc, pc |-> pc, i |-> i, results |-> results,
      info |-> info, pmid |-> pmid, filename |-> filename, best |-> best,
      pdf_url |-> pdf_url, content |-> content, temp_dir |-> temp_dir, ret |-> ret,
      calls |-> calls ]

\* The locals of a call that has not started.
NotStarted(t, ds, sv) ==
    [ tool |-> t, dois |-> ds, svc |-> sv, pc |-> "idle", i |-> 0, results |-> <<>>,
      info |-> <<>>, pmid |-> NoValue, filename |-> Unbound, best |-> NoLocation,
      pdf_url |-> NoValue, content |-> <<>>, temp_dir |-> NoValue, ret |-> Pending,
      calls |-> <<>> ]

\* The event loop goes on with the other call: the call that runs has not
\* started, awaits or has ended, and the other one has not ended.
Switch ==
    /\ parked.pc \notin { "none", "done" }
    /\ pc \in Awaiting \cup { "idle", "done" }
    /\ parked' = Locals
    /\ tool' = parked.tool
    /\ dois' = parked.dois
    /\ svc' = parked.svc
    /\ pc' = parked.pc
    /\ i' = parked.i
    /\ results' = parked.results
    /\ info' = parked.info
    /\ pmid' = parked.pmid
    /\ filename' = parked.filename
    /\ best' = parked.best
    /\ pdf_url' = parked.pdf_url
    /\ content' = parked.content
    /\ temp_dir' = parked.temp_dir
    /\ ret' = parked.ret
    /\ calls' = parked.calls
    /\ UNCHANGED << dirs, files, log, search, served >>

OtherPdf == <<"%PDF", "other text", "%%EOF">>

OtherPdfAnswer ==
    Resp(NoExc, 200, NoData, [content_type |-> ContentTypePdf, content |-> OtherPdf])

\* What the services answer for one identifier of a concurrent call: a PDF,
\* another PDF, a PDF whose write fails, no open access.
ConcScripts ==
    { Script(OpenAccessAnswer, d, "opened", w,
             [exc |-> NoExc, pmid |-> NoValue],
             [exc |-> NoExc, found |-> FALSE, article |-> NoArticle],
             [exc |-> NoExc, url |-> NoValue, reason |-> <<>>]) :
        d \in { PdfAnswer, OtherPdfAnswer }, w \in { "written" } }
    \cup { Script(OpenAccessAnswer, PdfAnswer, "opened", "OSError",
                  [exc |-> NoExc, pmid |-> NoValue],
                  [exc |-> NoExc, found |-> FALSE, article |-> NoArticle],
                  [exc |-> NoExc, url |-> NoValue, reason |-> <<>>]),
           Script(NotOpenAccessAnswer, PdfAnswer, "opened", "written",
                  [exc |-> NoExc, pmid |-> NoValue],
                  [exc |-> NoExc, found |-> FALSE, article |-> NoArticle],
                  [exc |-> NoExc, url |-> NoValue, reason |-> <<>>]) }

\* Two calls of get_full_text_markdown, none of which has started.
InitConcurrent ==
    /\ InitState(MaxConcLen)
    /\ tool = "get_full_text_markdown"
    /\ dois /= NoneBatch
    /\ svc \in [1..Len(dois) -> ConcScripts]
    /\ \E ds \in Batches(MaxConcLen) :
         \E sv \in [1..Len(ds) -> ConcScripts] :
             parked = NotStarted("get_full_text_markdown", ds, sv)
    /\ served = <<>>

NextConcurrent ==
    \/ FT_Enter /\ Elsewhere
    \/ FT_NextDoi /\ Elsewhere
    \/ FT_Unpaywall /\ Elsewhere
    \/ FT_Download /\ Elsewhere
    \/ FT_Open /\ Elsewhere
    \/ FT_Write /\ Elsewhere
    \/ FT_Close /\ Elsewhere
    \/ FT_EndLoop /\ Elsewhere
    \/ Switch

SpecConcurrent == InitConcurrent /\ [][NextConcurrent]_vars

(***************************************************************************)
(* One batch call and the unrelated requests of the same event loop.  The  *)
(* loop serves another request only while the call awaits: the calls of    *)
(* get_articles (convert.doi2pmid, pubmed_fetch.article_by_pmid, FindIt,   *)
(* lines 190, 202, 228) are plain calls, which keep the thread.            *)
(***************************************************************************)
MaxServed == 1

\* An unrelated request is served while the batch call awaits; it touches
\* nothing of the call.  served keeps where the call stood.
OtherRequest ==
    /\ pc \in Awaiting
    /\ Len(served) < MaxServed
    /\ served' = Append(served, [pc |-> pc, i |-> i, fragments |-> Len(results),
                                 calls |-> [k \in DOMAIN calls |-> calls[k].svc]])
    /\ UNCHANGED << tool, dois, svc, pc, i, results, info, pmid, filename, best, pdf_url,
                    content, temp_dir, dirs, files, log, ret, calls, search, parked >>

NextServing ==
    \/ Next
    \/ OtherRequest

SpecServing == Init /\ [][NextServing]_vars

(***************************************************************************)
(* Reading a report back.                                                  *)
(***************************************************************************)
\* The pieces of s from position start on, k being the position looked at.
RECURSIVE SplitFrom(_, _, _, _)
SplitFrom(s, tok, k, start) ==
    IF k > Len(s) THEN << SubSeq(s, start, Len(s)) >>
    ELSE IF s[k] = tok
    THEN << SubSeq(s, start, k - 1) >> \o SplitFrom(s, tok, k + 1, k + 1)
    ELSE SplitFrom(s, tok, k + 1, start)

\* str.split: the pieces of s between the occurrences of tok.
SplitOn(s, tok) == SplitFrom(s, tok, 1, 1)

Sentinels ==
    { <<"No PDFs were processed successfully.">>,
      <<"No articles were processed successfully.">> }

\* The fragments of a report: the pieces between the separators.
Fragments(report) ==
    IF report \in Sentinels THEN <<>> ELSE SplitOn(report, SEPARATOR[1])

\* The lines of a fragment.
Lines(fragment) == SplitOn(fragment, NL[1])

\* The fragment is about identifier d: its second line is "DOI: d".
SecondLineIs(ls, line) == Len(ls) >= 2 /\ ls[2] = line

Names(fragment, d) == SecondLineIs(Lines(fragment), <<"DOI: ">> \o d)

\* Where the fragments of a report start: at its start and after each
\* separator.
FragmentStarts(report) ==
    {1} \cup { k + 1 : k \in { n \in DOMAIN report : report[n] = SEPARATOR[1] } }

FragmentCount(report) ==
    IF report \in Sentinels THEN 0 ELSE Cardinality(FragmentStarts(report))

\* The k-th smallest of the starts.
NthStart(starts, k) ==
    CHOOSE p \in starts : Cardinality({ q \in starts : q < p }) = k - 1

\* The fragment that starts at p is about identifier d: after its first line
\* comes the line "DOI: d".
NamesAt(report, p, d) ==
    /\ p + Len(d) + 2 <= Len(report)
    /\ report[p + 1] = NL[1]
    /\ SubSeq(report, p + 2, p + 2 + Len(d)) = <<"DOI: ">> \o d
    /\ p + Len(d) + 3 <= Len(report) => report[p + Len(d) + 3] \in { NL[1], SEPARATOR[1] }

Has(fragment, chunk) == \E k \in DOMAIN fragment : fragment[k] = chunk

IsErrorFragment(fragment) ==
    \E k \in DOMAIN fragment :
        fragment[k] \in { "Error: ", "Error: Failed to process PDF - ",
                          "Error: Failed to retrieve or download PDF - ",
                          "Error: Could not retrieve PMID - ",
                          "Error: Could not retrieve article data - ",
                          "Error: Could not retrieve full text URL - " }

Returned == pc = "done" /\ ret.kind = "return"

AtLoop == pc \in { "ft_for", "ga_for" }

\* The iteration for dois[i] has ended and its fragment is results[i].
ItemEnded == (AtLoop \/ pc = "done") /\ i >= 1 /\ Len(results) = i

(***************************************************************************)
(* C1.  Whatever the services answer, the report a batch tool returns      *)
(* holds exactly one fragment per input identifier, and the k-th fragment  *)
(* is the one of the k-th identifier.                                      *)
(***************************************************************************)
C1_OneFragmentPerIdentifierInOrder ==
    Returned =>
        LET starts == FragmentStarts(ret.value)
        IN  /\ FragmentCount(ret.value) = Len(dois)
            /\ \A k \in 1..Len(dois) : NamesAt(ret.value, NthStart(starts, k), dois[k])

\* A returned full-text report of a batch of two different identifiers, the
\* first of which failed and the second of which was converted.
C1_Witness ==
    /\ Returned
    /\ tool = "get_full_text_markdown"
    /\ Len(dois) >= 2
    /\ dois[1] /= dois[2]
    /\ IsErrorFragment(Fragments(ret.value)[1])
    /\ Has(Fragments(ret.value)[2], "Markdown Content:")

(***************************************************************************)
(* C2.  No stage-level error of an identifier leaves the batch call: a     *)
(* call on a list always returns a report, after an identifier's stage     *)
(* failed control is back at the loop with that identifier's fragment      *)
(* appended, and the call ends only when every identifier was processed.   *)
(***************************************************************************)
\* The file whose write has ended, well or not, is being closed.
Closing == pc = "ft_close"

LastCallFailed == calls /= <<>> /\ calls[Len(calls)].resp.exc /= NoExc

C2_NoStageErrorLeavesBatch ==
    /\ dois /= NoneBatch => ret.kind /= "raise"
    /\ LastCallFailed /\ ~Closing => (AtLoop \/ pc = "done") /\ Len(results) = i
    /\ AtLoop => Len(results) = i
    /\ pc = "done" /\ dois /= NoneBatch =>
          /\ ret.kind = "return"
          /\ i = Len(dois)
          /\ Len(results) = Len(dois)

\* The first identifier's Unpaywall request failed, and the second one was
\* processed to the end, and the call returned.
C2_Witness ==
    /\ Returned
    /\ tool = "get_full_text_markdown"
    /\ Len(results) >= 2
    /\ IsErrorFragment(results[1])
    /\ Has(results[2], "Markdown Content:")
    /\ \E k \in DOMAIN log : log[k][1] = "[Error] API or download error for DOI "

(***************************************************************************)
(* C3.  In get_full_text_markdown the per-item file exists only between    *)
(* the moment it is opened and the end of the write: once the acquisition  *)
(* step of an identifier has ended, in whichever way, no file is left, in  *)
(* particular not when the next identifier starts or the call returns.     *)
(***************************************************************************)
C3_NoFileAfterAcquisition ==
    /\ pc \notin { "ft_write", "ft_close" } => DOMAIN files = {}
    /\ pc \in { "ft_write", "ft_close" } => DOMAIN files = { filename }
    /\ AtLoop \/ pc = "done" =>
          \A k \in 1..i : dois /= NoneBatch => SafeFilename(temp_dir, dois[k]) \notin DOMAIN files

\* The conversion of the written file raised and the iteration has ended.
C3_Witness ==
    /\ ItemEnded
    /\ tool = "get_full_text_markdown"
    /\ calls[Len(calls)].svc = "to_markdown"
    /\ calls[Len(calls)].resp.exc /= NoExc
    /\ SafeFilename(temp_dir, doi) \notin DOMAIN files

(***************************************************************************)
(* C4.  When get_full_text_markdown has ended, by a report or by the       *)
(* TypeError of a batch that cannot be iterated, its directory is removed, *)
(* unless os.rmdir failed; that failure is logged and nothing else: the    *)
(* call ends the way it would have ended, and the report says nothing of   *)
(* the failure.                                                            *)
(***************************************************************************)
CleanupFailureLogged ==
    \E k \in DOMAIN log : log[k][1] = "[Error] Failed to clean up temporary directory: "

C4_DirectoryRemovedOnEveryExit ==
    pc = "done" /\ tool = "get_full_text_markdown" =>
        /\ temp_dir /= NoValue
        /\ temp_dir \in dirs <=> CleanupFailureLogged
        /\ ret.kind = (IF dois = NoneBatch THEN "raise" ELSE "return")
        /\ ret.kind = "raise" => ret.value[1] = "TypeError: 'NoneType' object is not iterable"
        /\ ret.kind = "return" =>
              /\ FragmentCount(ret.value) = Len(results)
              /\ \A k \in DOMAIN ret.value : ret.value[k] /= RmdirLog(FALSE)[1][2]

\* os.rmdir failed at the end of a batch of at least one identifier, and the
\* report was returned.
C4_Witness ==
    /\ Returned
    /\ tool = "get_full_text_markdown"
    /\ Len(results) >= 1
    /\ temp_dir \in dirs
    /\ CleanupFailureLogged

(***************************************************************************)
(* The stages of an identifier, and what a fragment carries.               *)
(***************************************************************************)
StageOf(service) ==
    IF service = "doi2pmid" THEN "RESOLVE"
    ELSE IF service = "article_by_pmid" THEN "METADATA"
    ELSE IF service \in { "FindIt", "unpaywall" } THEN "LOCATE"
    ELSE IF service \in { "download", "open", "write" } THEN "ACQUIRE"
    ELSE "CONVERT"

StageOrder == << "RESOLVE", "METADATA", "LOCATE", "ACQUIRE", "CONVERT" >>

Before(s, t) ==
    \E m, n \in DOMAIN StageOrder : StageOrder[m] = s /\ StageOrder[n] = t /\ m < n

\* The error a call ended in: the exception of the transport, or the one
\* raise_for_status makes of a status that is not 2xx.
FailureOf(call) ==
    IF call.resp.exc /= NoExc THEN call.resp.exc
    ELSE IF call.svc \in { "unpaywall", "download" } THEN RaiseForStatus(call.resp)
    ELSE NoExc

\* The marker a fragment gives the failure of a call of this service.
MarkerOf(call) ==
    IF call.svc = "doi2pmid" THEN "Error: Could not retrieve PMID - "
    ELSE IF call.svc = "article_by_pmid" THEN "Error: Could not retrieve article data - "
    ELSE IF call.svc = "FindIt" THEN "Error: Could not retrieve full text URL - "
    ELSE IF call.svc \in { "unpaywall", "download" } /\ IsHTTPError(FailureOf(call))
    THEN "Error: Failed to retrieve or download PDF - "
    ELSE "Error: Failed to process PDF - "

\* The fragment holds the chunks of text, one after the other.
Carries(fragment, text) ==
    \E k \in 0..(Len(fragment) - Len(text)) :
        \A n \in 1..Len(text) : fragment[k + n] = text[n]

\* What each stage contributes to a fragment when it succeeds.
ContentOf(stage) ==
    IF stage = "RESOLVE" THEN { "PMID: " }
    ELSE IF stage = "METADATA" THEN { "Title: ", "Abstract:" }
    ELSE IF stage = "LOCATE" THEN { "URL: ", "Open Access Source: " }
    ELSE { "Markdown Content:" }

(***************************************************************************)
(* C5.  The stages of an identifier run in the fixed order, none twice;    *)
(* a failed stage is the last one of its identifier, and the fragment then *)
(* carries the marker and the detail of that stage's error and no content  *)
(* of a later stage.                                                       *)
(***************************************************************************)
C5_StagesInOrderFailureEndsItem ==
    /\ \A m, n \in DOMAIN calls :
          m < n => /\ calls[m].svc /= calls[n].svc
                   /\ ~Before(StageOf(calls[n].svc), StageOf(calls[m].svc))
    /\ \A m \in DOMAIN calls : FailureOf(calls[m]) /= NoExc => m = Len(calls)
    /\ \A m \in DOMAIN calls :
          FailureOf(calls[m]) /= NoExc /\ ~Closing =>
              /\ m = Len(calls)
              /\ ItemEnded
              /\ Has(results[i], MarkerOf(calls[m]))
              /\ Carries(results[i], FailureOf(calls[m]).msg)
              /\ \A st \in { t \in { "METADATA", "LOCATE", "ACQUIRE", "CONVERT" } :
                               Before(StageOf(calls[m].svc), t)
                               \/ StageOf(calls[m].svc) = t } :
                    \A c \in ContentOf(st) : ~Has(results[i], c)

(***************************************************************************)
(* C6.  Two positions of a batch that hold the same identifier and are     *)
(* given the same answers by the services get the same fragment.           *)
(***************************************************************************)
C6_FragmentDependsOnlyOnItsIdentifier ==
    \A m, n \in 1..Len(results) :
        svc /= <<>> /\ dois[m] = dois[n] /\ svc[m] = svc[n] => results[m] = results[n]

(***************************************************************************)
(* C7.  When Unpaywall answers that the identifier is not open access, or  *)
(* open access with no location, no download is attempted and the fragment *)
(* carries the reason; the answer states none, so it is the generic "No    *)
(* open access PDF available".                                             *)
(***************************************************************************)
NotFoundAnswer(call) ==
    /\ call.svc = "unpaywall"
    /\ FailureOf(call) = NoExc
    /\ (~call.resp.json.is_oa \/ call.resp.json.oa_locations = <<>>)

C7_NotOpenAccessReported ==
    ItemEnded /\ calls /= <<>> /\ NotFoundAnswer(calls[1]) =>
        /\ Len(calls) = 1
        /\ Has(results[i], "No open access PDF available")

(***************************************************************************)
(* C8.  The URL that is downloaded is the PDF URL of the first location    *)
(* of the Unpaywall answer that has one; if no location has one, it is the *)
(* generic URL of the first location.                                      *)
(***************************************************************************)
DownloadRequested == pc = "ft_download" \/ \E k \in DOMAIN calls : calls[k].svc = "download"

DownloadedUrl ==
    IF pc = "ft_download" THEN pdf_url
    ELSE calls[CHOOSE k \in DOMAIN calls : calls[k].svc = "download"].arg

HasPdfUrl(location) == location.url_for_pdf /= NoValue

C8_FirstPdfUrlElseFirstUrl ==
    DownloadRequested =>
        LET data == calls[1].resp.json
            locs == data.oa_locations
        IN  /\ calls[1].svc = "unpaywall"
            /\ data.is_oa
            /\ locs /= <<>>
            /\ IF \E k \in DOMAIN locs : HasPdfUrl(locs[k])
               THEN \E k \in DOMAIN locs :
                       /\ HasPdfUrl(locs[k])
                       /\ \A j \in 1..(k - 1) : ~HasPdfUrl(locs[j])
                       /\ DownloadedUrl = locs[k].url_for_pdf
               ELSE DownloadedUrl = locs[1].url

\* Two locations, only the second has a PDF URL, and that one is requested.
C8_Witness ==
    /\ pc = "ft_download"
    /\ Len(calls[1].resp.json.oa_locations) = 2
    /\ ~HasPdfUrl(calls[1].resp.json.oa_locations[1])
    /\ calls[1].resp.json.oa_locations[1].url /= NoValue
    /\ HasPdfUrl(calls[1].resp.json.oa_locations[2])
    /\ pdf_url = calls[1].resp.json.oa_locations[2].url_for_pdf

(***************************************************************************)
(* C9.  A download that succeeds with a content type that does not hold    *)
(* "pdf" in any case ends the identifier with a content-type error that    *)
(* names the content type: no file is opened or written, nothing is        *)
(* converted.  A content type that holds "pdf" in upper case passes.       *)
(***************************************************************************)
DeclaresPdf(ct) ==
    \E k \in 1..(Len(ct) - 2) :
        ct[k] \in { "p", "P" } /\ ct[k + 1] \in { "d", "D" } /\ ct[k + 2] \in { "f", "F" }

Downloaded(call) == call.svc = "download" /\ call.resp.exc = NoExc /\ call.resp.status = 200

ObservedType(call) ==
    IF call.resp.body.content_type = NoValue THEN <<>> ELSE call.resp.body.content_type

C9_NotPdfIsContentTypeError ==
    \A k \in DOMAIN calls :
        Downloaded(calls[k]) =>
            IF DeclaresPdf(ObservedType(calls[k]))
            THEN ItemEnded => ~Has(results[i], "Not a PDF file (content-type: ")
            ELSE /\ k = Len(calls)
                 /\ ItemEnded
                 /\ DOMAIN files = {}
                 /\ Has(results[i], "Error: Failed to process PDF - ")
                 /\ Carries(results[i], <<"Not a PDF file (content-type: ">>
                                        \o ObservedType(calls[k]) \o <<")">>)
                 /\ ~Has(results[i], "Markdown Content:")

\* A page of type text/html was downloaded.
C9_Witness ==
    /\ ItemEnded
    /\ Len(calls) = 2
    /\ Downloaded(calls[2])
    /\ calls[2].resp.body.content_type = ContentTypeHtml
    /\ Carries(results[i], <<"Not a PDF file (content-type: ">> \o ContentTypeHtml \o <<")">>)

(***************************************************************************)
(* C10, as claimed.  The aggregator is queried only after the primary      *)
(* locator was queried with the internal identifier and gave no URL.       *)
(***************************************************************************)
C10_AggregatorOnlyAfterPrimary ==
    \A n \in DOMAIN calls :
        calls[n].svc = "unpaywall" =>
            \E m \in 1..(n - 1) :
                /\ calls[m].svc = "FindIt"
                /\ calls[m].resp.exc = NoExc
                /\ calls[m].resp.url = NoValue

(***************************************************************************)
(* C10, amended.  Each tool has one locator.  get_articles queries the     *)
(* primary locator with the internal identifier that the resolver gave,    *)
(* after resolution and metadata, reports the URL it yields, and never     *)
(* queries the aggregator.  get_full_text_markdown queries the aggregator  *)
(* first, with the original identifier, and never queries the primary      *)
(* locator.                                                                *)
(***************************************************************************)
C10_OneLocatorPerTool ==
    /\ tool = "get_articles" =>
          \A n \in DOMAIN calls :
              /\ calls[n].svc \in { "doi2pmid", "article_by_pmid", "FindIt" }
              /\ calls[n].svc = "FindIt" =>
                    /\ n = 3
                    /\ calls[1].svc = "doi2pmid"
                    /\ calls[2].svc = "article_by_pmid"
                    /\ calls[n].arg = calls[1].resp.pmid
                    /\ ItemEnded
                    /\ calls[n].resp.exc = NoExc /\ calls[n].resp.url /= NoValue =>
                          Carries(results[i], <<"URL: ">> \o calls[n].resp.url)
    /\ tool = "get_full_text_markdown" =>
          \A n \in DOMAIN calls :
              /\ calls[n].svc \notin { "doi2pmid", "article_by_pmid", "FindIt" }
              /\ calls[n].svc = "unpaywall" =>
                    /\ n = 1
                    /\ SubSeq(calls[n].arg, 2, Len(doi) + 1) = doi

\* get_articles: the primary locator gave a URL, and the fragment has it.
C10_Witness ==
    /\ ItemEnded
    /\ tool = "get_articles"
    /\ Len(calls) = 3
    /\ calls[3].svc = "FindIt"
    /\ calls[3].resp.url /= NoValue
    /\ Carries(results[i], <<"URL: ">> \o calls[3].resp.url)

(***************************************************************************)
(* C11.  A batch tool called with an empty list returns its fixed          *)
(* "nothing processed" sentinel, which is not the empty string; called     *)
(* with a list of at least one identifier it never returns a sentinel.     *)
(***************************************************************************)
SentinelOf(t) ==
    IF t = "get_full_text_markdown" THEN <<"No PDFs were processed successfully.">>
    ELSE <<"No articles were processed successfully.">>

C11_SentinelIffEmptyBatch ==
    /\ pc = "done" /\ dois = <<>> =>
          /\ ret.kind = "return"
          /\ ret.value = SentinelOf(tool)
          /\ ret.value /= <<>>
          /\ \A k \in DOMAIN ret.value : ret.value[k] /= ""
    /\ Returned /\ dois /= <<>> =>
          /\ ret.value \notin Sentinels
          /\ \A k \in DOMAIN ret.value : ret.value[k] \notin { s[1] : s \in Sentinels }

\* The full-text tool was called with the empty list and has returned.
C11_Witness ==
    /\ Returned
    /\ tool = "get_full_text_markdown"
    /\ dois = <<>>
    /\ results = <<>>
    /\ ret.value = <<"No PDFs were processed successfully.">>

(***************************************************************************)
(* C12.  Whatever id list the search service returns, a successful         *)
(* search_snps(term, limit) returns at most limit results, and its         *)
(* returned_count is the number of results it returns.                     *)
(***************************************************************************)
C12_AtMostLimitAndCountMatches ==
    search.pc = "done" /\ search.result.success =>
        /\ Len(search.result.results) <= search.limit
        /\ search.result.returned_count = Len(search.result.results)

(***************************************************************************)
(* Two concurrent calls: the one that runs and the parked one.             *)
(***************************************************************************)
BothCalls == { Locals, parked }

\* The call has made its directory and has not yet removed it.
InCall(t) == t.pc \notin { "idle", "done", "none" }

\* The call has opened its file and not yet left the iteration.
HoldsFile(t) == t.pc \in { "ft_write", "ft_close" }

FileCalls == { "open", "write", "to_markdown" }

\* The bytes the call downloaded for the identifier it is at.
DownloadedBytes(t) ==
    { t.calls[j].resp.body.content : j \in { n \in DOMAIN t.calls : t.calls[n].svc = "download" } }

CleanupFailures ==
    Cardinality({ k \in DOMAIN log : log[k][1] = "[Error] Failed to clean up temporary directory: " })

(***************************************************************************)
(* C13.  Two get_full_text_markdown calls interleaved at their awaits,     *)
(* with the same identifier or not: their directories differ while both    *)
(* are in use; every file a call opens, writes, converts or removes lies   *)
(* in its own directory, a file exists exactly while its call holds it and *)
(* holds what that call wrote; a call converts the bytes it downloaded;    *)
(* no file is left when an iteration has ended, and when both calls have   *)
(* ended every directory is removed but for the logged failures.           *)
(***************************************************************************)
C13_ConcurrentCallsAreIsolated ==
    /\ InCall(Locals) /\ InCall(parked) => temp_dir /= parked.temp_dir
    /\ \A t \in BothCalls :
          /\ InCall(t) => t.temp_dir \in dirs
          /\ InCall(t) /\ t.filename /= Unbound => InDir(t.filename, t.temp_dir)
          /\ \A k \in DOMAIN t.calls :
                t.calls[k].svc \in FileCalls => InDir(t.calls[k].arg, t.temp_dir)
          /\ HoldsFile(t) =>
                /\ t.filename \in DOMAIN files
                /\ files[t.filename] \in { <<>>, t.content, SubSeq(t.content, 1, 1) }
          /\ \A k \in DOMAIN t.calls :
                t.calls[k].svc = "to_markdown" =>
                    /\ t.calls[k].resp.exc.type /= "FileNotFoundError"
                    /\ DownloadedBytes(t) = { t.calls[k].resp.body.content }
          /\ InCall(t) /\ ~HoldsFile(t) => \A p \in DOMAIN files : ~InDir(p, t.temp_dir)
    /\ \A p \in DOMAIN files : \E t \in BothCalls : HoldsFile(t) /\ p = t.filename
    /\ pc = "done" /\ parked.pc = "done" =>
          /\ DOMAIN files = {}
          /\ Cardinality(dirs) = CleanupFailures

\* Both calls are at the same identifier and hold their file, one with the
\* bytes of one PDF and the other with the bytes of another; and later both
\* have converted their own.
C13_Witness ==
    /\ pc = "ft_close"
    /\ parked.pc = "ft_close"
    /\ doi = parked.dois[parked.i]
    /\ filename /= parked.filename
    /\ files[filename] = GoodPdf
    /\ files[parked.filename] = OtherPdf

(***************************************************************************)
(* C14.  Within a batch call another request can be served exactly where   *)
(* the call stands at a network call (resolution, metadata, location,      *)
(* download) or at the write of the file; none is served once the          *)
(* conversion has started; and whatever is served in between, the          *)
(* identifier at position k+1 is started only when k fragments have been   *)
(* appended.                                                               *)
(***************************************************************************)
AtNetworkCall == pc \in { "ga_pmid", "ga_article", "ga_findit", "ft_unpaywall", "ft_download" }

AtFileWrite == pc \in { "ft_open", "ft_write", "ft_close" }

InItem == pc \notin { "idle", "done", "ft_for", "ga_for" }

C14_SuspensionPointsAndOrder ==
    /\ (AtNetworkCall \/ AtFileWrite) /\ Len(served) < MaxServed => ENABLED OtherRequest
    /\ ENABLED OtherRequest => AtNetworkCall \/ AtFileWrite
    /\ \A n \in DOMAIN served :
          /\ \A k \in DOMAIN served[n].calls : served[n].calls[k] /= "to_markdown"
          /\ served[n].fragments = served[n].i - 1
    /\ InItem => Len(results) = i - 1
    /\ AtLoop => Len(results) = i

=============================================================================
